---- MODULE Spec2Model ----
(***************************************************************************)
(* The tab-switcher overlay of src/src/main.rs: State { tabs, filter,      *)
(* selected }, the fuzzy filter/rank (score, viewable_tabs), the selection *)
(* controller (reset_selection, select_down, select_up) and the event      *)
(* dispatcher ZellijPlugin::update, one action per match arm.              *)
(*                                                                         *)
(* A String is a sequence of one-character strings.  Option<T> is a        *)
(* sequence of length at most one: None = <<>>, Some(x) = <<x>>.           *)
(***************************************************************************)
EXTENDS Integers, Sequences, FiniteSets, TLC

\* ---------------------------------------------------------------- bounds
\* Largest number of tabs in a generated snapshot; positions range over
\* 0..MaxTabs so that a snapshot's positions need not be contiguous.
MaxTabs == 2
\* Largest length of the filter text.
MaxFilter == 2
\* Length of the run of filler characters in LongName.
GapLen == 60

None == <<>>
Some(x) == <<x>>

Max(a, b) == IF a >= b THEN a ELSE b

\* ------------------------------------------------------------ characters
UpperLetters == <<"A","B","C","D","E","F","G","H","I","J","K","L","M",
                  "N","O","P","Q","R","S","T","U","V","W","X","Y","Z","É">>
LowerLetters == <<"a","b","c","d","e","f","g","h","i","j","k","l","m",
                  "n","o","p","q","r","s","t","u","v","w","x","y","z","é">>
DigitChars == <<"0","1","2","3","4","5","6","7","8","9">>
NonAsciiChars == {"é", "É"}

\* char::is_ascii
is_ascii(c) == c \notin NonAsciiChars

\* char lower-casing, as str::to_lowercase applies it to each character
to_lowercase_char(c) ==
    IF \E i \in 1..Len(UpperLetters) : UpperLetters[i] = c
    THEN LowerLetters[CHOOSE i \in 1..Len(UpperLetters) : UpperLetters[i] = c]
    ELSE c

\* str::to_lowercase
to_lowercase(s) == [i \in 1..Len(s) |-> to_lowercase_char(s[i])]

\* usize::to_string: the decimal digits of n, most significant first
RECURSIVE to_string(_)
to_string(n) ==
    IF n < 10 THEN <<DigitChars[n + 1]>>
    ELSE Append(to_string(n \div 10), DigitChars[(n % 10) + 1])

\* format!("{}: {}", index_str, tab.name)
search_str(tab) == to_string(tab.position + 1) \o <<":", " ">> \o tab.name

\* ------------------------------------------- SkimMatcherV2::fuzzy_match
\* SkimScoreConfig::default() of the fuzzy-matcher crate, which
\* SkimMatcherV2::default() carries.
SkimScoreConfig ==
    [score_match |-> 16, gap_start |-> -3, gap_extension |-> -1,
     bonus_first_char_multiplier |-> 2,
     bonus_head |-> 8, bonus_break |-> 7, bonus_camel |-> 6,
     bonus_consecutive |-> 4, awful_score |-> -(2^30)]

\* the character classes of the matcher
char_type_of(c) ==
    IF c = "" THEN "Empty"
    ELSE IF c \in {" ", "/", "|", "(", ")", "[", "]", "{", "}"} THEN "HardSep"
    ELSE IF c \in {":", "-", "_", ".", ",", ";"} THEN "SoftSep"
    ELSE IF \E i \in 1..Len(DigitChars) : DigitChars[i] = c THEN "Number"
    ELSE IF \E i \in 1..26 : UpperLetters[i] = c THEN "Upper"
    ELSE "Lower"

\* bonus of a match at a character preceded by prev_ch
in_place_bonus(prev_ch, ch) ==
    LET p == char_type_of(prev_ch)
        t == char_type_of(ch)
    IN  IF p \in {"Empty", "HardSep"} THEN SkimScoreConfig.bonus_head
        ELSE IF p = "SoftSep" THEN SkimScoreConfig.bonus_break
        ELSE IF p \in {"Lower", "Number"} /\ t = "Upper"
             THEN SkimScoreConfig.bonus_camel
        ELSE 0

\* score of matching choice[j] with the pat_idx-th pattern character
calculate_match_score(choice, j, pat_idx) ==
    LET prev_ch == IF j = 1 THEN "" ELSE choice[j - 1]
        bonus == in_place_bonus(prev_ch, choice[j])
    IN  SkimScoreConfig.score_match
        + (IF pat_idx = 1
           THEN bonus * SkimScoreConfig.bonus_first_char_multiplier
           ELSE bonus)

\* the least element of a non-empty set of numbers, and the greatest
SetMin(S) == CHOOSE x \in S : \A y \in S : x <= y
SetMax(S) == CHOOSE x \in S : \A y \in S : x >= y

\* the pattern occurs in the choice as a subsequence, gaps allowed: each
\* pattern character is looked for after the first match of the one before
RECURSIVE cheap_matches(_, _, _, _)
cheap_matches(choice, pattern, pat_idx, from) ==
    IF pat_idx > Len(pattern) THEN TRUE
    ELSE LET hits == {j \in from..Len(choice) : choice[j] = pattern[pat_idx]}
         IN  /\ hits # {}
             /\ cheap_matches(choice, pattern, pat_idx + 1, SetMin(hits) + 1)

\* One row of the score matrix.  Cell j holds m, the best score of an
\* alignment of pattern[1..pat_idx] in choice[1..j] that matches choice[j],
\* and p, the best one that skips choice[j], gaps penalised affinely:
\*   M[i][j] = match(i, j) + max(M[i-1][j-1] + consecutive, P[i-1][j-1])
\*   M[i][j] = -infinity if pattern[i] and choice[j] do not match
\*   P[i][j] = max(M[i][j-k] - gap(k)) for k in 1..j,
\*             gap(k) = -(gap_start + k * gap_extension)
build_score_row(choice, pattern, pat_idx, prev_row) ==
    LET awful == SkimScoreConfig.awful_score
        diag(j) == IF j = 1
                   THEN [m |-> awful, p |-> IF pat_idx = 1 THEN 0 ELSE awful]
                   ELSE prev_row[j - 1]
        m_row == [j \in 1..Len(choice) |->
                    IF choice[j] = pattern[pat_idx]
                    THEN Max(awful,
                             calculate_match_score(choice, j, pat_idx)
                             + Max(diag(j).m + SkimScoreConfig.bonus_consecutive,
                                   diag(j).p))
                    ELSE awful]
    IN  [j \in 1..Len(choice) |->
            [m |-> m_row[j],
             p |-> SetMax({awful} \cup
                          { m_row[j - k] + SkimScoreConfig.gap_start
                                         + k * SkimScoreConfig.gap_extension :
                            k \in 1..(j - 1) })]]

RECURSIVE build_score_matrix(_, _, _, _)
build_score_matrix(choice, pattern, pat_idx, prev_row) ==
    IF pat_idx > Len(pattern) THEN prev_row
    ELSE build_score_matrix(choice, pattern, pat_idx + 1,
             build_score_row(choice, pattern, pat_idx, prev_row))

\* matcher.fuzzy_match(choice, pattern): Some(0) for an empty pattern, None
\* when the pattern is no subsequence of the choice, else Some(s), s the best
\* score of an alignment that ends in a match of the last pattern character
fuzzy_match(choice, pattern) ==
    IF pattern = <<>> THEN Some(0)
    ELSE IF ~cheap_matches(choice, pattern, 1, 1) THEN None
    ELSE LET first_row == [j \in 1..Len(choice) |->
                              [m |-> SkimScoreConfig.awful_score, p |-> 0]]
             last_row == build_score_matrix(choice, pattern, 1, first_row)
         IN  Some(SetMax({last_row[j].m : j \in 1..Len(last_row)}))

\* ------------------------------------------------------------ State::*
\* State::score
score(tab, filter_text) ==
    LET r == fuzzy_match(to_lowercase(search_str(tab)), to_lowercase(filter_text))
    IN  IF r # None THEN r[1] ELSE -1

\* a filter that keeps the positive scores only
keep_score_positive(s) == s > 0

\* .filter(|tup| tup.1 >= 0)
keep_score(s) == s >= 0

\* a comparator that also puts a before b when their scores are equal
sorts_before_or_equal(a, b) == b[2] <= a[2]

\* the comparator of tabs.sort_by: b.1.cmp(&a.1) is Less, i.e. a sorts
\* strictly before b
sorts_before(a, b) == b[2] < a[2]

\* slice::sort_by is stable: an element is inserted after every element that
\* does not sort strictly after it
RECURSIVE insert_stable(_, _)
insert_stable(sorted, x) ==
    IF sorted = <<>> THEN <<x>>
    ELSE IF sorts_before(x, sorted[Len(sorted)])
         THEN Append(insert_stable(SubSeq(sorted, 1, Len(sorted) - 1), x),
                     sorted[Len(sorted)])
    ELSE Append(sorted, x)

RECURSIVE sort_by(_, _)
sort_by(tups, n) ==
    IF n = 0 THEN <<>> ELSE insert_stable(sort_by(tups, n - 1), tups[n])

\* State::viewable_tabs_iter / State::viewable_tabs
viewable_tabs(tab_list, filter_text) ==
    LET scored == [i \in 1..Len(tab_list) |->
                      <<tab_list[i], score(tab_list[i], filter_text)>>]
        kept == SelectSeq(scored, LAMBDA tup : keep_score(tup[2]))
        sorted == sort_by(kept, Len(kept))
    IN  [i \in 1..Len(sorted) |-> sorted[i][1]]

\* a reset that keeps a selection that is still viewable
reset_selection_if_hidden(tab_list, filter_text, sel) ==
    LET v == viewable_tabs(tab_list, filter_text)
    IN  IF \E i \in 1..Len(v) : Some(v[i].position) = sel THEN sel
        ELSE IF v = <<>> THEN None ELSE Some(v[1].position)

\* a reset that keeps the selection when no tab is viewable
reset_selection_keep(tab_list, filter_text, sel) ==
    LET v == viewable_tabs(tab_list, filter_text)
    IN  IF v = <<>> THEN sel ELSE Some(v[1].position)

\* State::reset_selection: the new value of selected
reset_selection(tab_list, filter_text, sel) ==
    LET v == viewable_tabs(tab_list, filter_text)
    IN  IF v = <<>> THEN None ELSE Some(v[1].position)

\* the loop shared by select_down and select_up over the positions it visits
RECURSIVE select_loop(_, _, _, _)
select_loop(v, i, can_select, sel) ==
    IF i > Len(v)
    THEN IF v = <<>> THEN sel ELSE Some(v[1].position)
    ELSE IF can_select THEN Some(v[i].position)
    ELSE select_loop(v, i + 1, Some(v[i].position) = sel, sel)

\* Vec::reverse
reverse(s) == [i \in 1..Len(s) |-> s[Len(s) + 1 - i]]

\* a select_down that stays on the last viewable tab
select_down_clamped(tab_list, filter_text, sel) ==
    LET v == viewable_tabs(tab_list, filter_text)
    IN  IF v # <<>> /\ sel = Some(v[Len(v)].position) THEN sel
        ELSE select_loop(v, 1, FALSE, sel)

\* State::select_down: the new value of selected
select_down(tab_list, filter_text, sel) ==
    select_loop(viewable_tabs(tab_list, filter_text), 1, FALSE, sel)

\* a select_up that does not reverse the viewable tabs
select_up_unreversed(tab_list, filter_text, sel) ==
    select_loop(viewable_tabs(tab_list, filter_text), 1, FALSE, sel)

\* State::select_up: the new value of selected
select_up(tab_list, filter_text, sel) ==
    select_loop(reverse(viewable_tabs(tab_list, filter_text)), 1, FALSE, sel)

\* ------------------------------------------------------- inputs of update
\* the tab names the host reports
Names == {<<"t","e">>, <<"e","t">>}

Positions == 0..MaxTabs

\* a name whose first and last characters are GapLen characters apart
LongName == <<"t">> \o [i \in 1..GapLen |-> "x"] \o <<"e">>

\* the snapshot of the scenarios
ScenarioTabs ==
    << [position |-> 0, name |-> <<"e","d","i","t","o","r">>, active |-> TRUE],
       [position |-> 1, name |-> <<"b","u","i","l","d">>, active |-> FALSE],
       [position |-> 2, name |-> <<"t","e","s","t","s">>, active |-> FALSE] >>

TabInfo == [position : Positions, name : Names, active : BOOLEAN]

\* Vec<TabInfo> of a TabUpdate: positions unique, at most one tab active
TabLists ==
    { l \in UNION { [1..n -> TabInfo] : n \in 0..MaxTabs } :
        /\ \A i, j \in 1..Len(l) : i # j => l[i].position # l[j].position
        /\ \A i, j \in 1..Len(l) : l[i].active /\ l[j].active => i = j }
    \cup {ScenarioTabs}

\* one-tab lists, the tab's name short or long
LongTabLists ==
    { <<[position |-> p, name |-> n, active |-> a]>> :
        p \in Positions, n \in {<<"t","e">>, LongName}, a \in BOOLEAN }

\* the characters a Key::Char carries other than '\n' and 'Y'
TypedChars == {"t", "e", "T", "2", "\t", "é"}
ConfirmChars == {"\n", "Y"}

\* ------------------------------------------------------- inputs of load
\* the values the configuration map may hold under the key "ignore_case"
ConfigValues ==
    { <<"t","r","u","e">>, <<" ","f","a","l","s","e","\n">>,
      <<"y","e","s">>, <<"T","r","u","e">> }

\* configuration.get("ignore_case"): None when the key is absent
Configurations == {None} \cup { Some(v) : v \in ConfigValues }

\* char::is_whitespace
is_whitespace(c) == c \in {" ", "\t", "\n", "\r"}

\* str::trim
trim(s) ==
    LET kept == {i \in 1..Len(s) : ~is_whitespace(s[i])}
    IN  IF kept = {} THEN <<>> ELSE SubSeq(s, SetMin(kept), SetMax(kept))

\* a parse that takes every text other than "false" for true
parse_bool_lenient(s) ==
    IF s = <<"f","a","l","s","e">> THEN Some(FALSE) ELSE Some(TRUE)

\* str::parse::<bool>: Ok for "true" and "false" only; None stands for Err
parse_bool(s) ==
    IF s = <<"t","r","u","e">> THEN Some(TRUE)
    ELSE IF s = <<"f","a","l","s","e">> THEN Some(FALSE)
    ELSE None

\* host commands
RequestPermission == [cmd |-> "request_permission"]
Subscribe == [cmd |-> "subscribe"]
CloseFocus == [cmd |-> "close_focus"]
SwitchTabTo(n) == [cmd |-> "switch_tab_to", tab |-> n]

\* -------------------------------------------------------------- state
VARIABLES
    tabs,           \* State.tabs
    filter,         \* State.filter
    selected,       \* State.selected
    ignore_case,    \* State.ignore_case
    pc,             \* "new" before load(), "ready" once load() has returned,
                    \* "panicked" once load() has panicked
    event,          \* the event the last update() call received, or the
                    \* load() call with its configuration
    before,         \* filter and selected when that call began
    commands,       \* the host commands that call issued, in order
    should_render   \* the value that call returned

vars == <<tabs, filter, selected, ignore_case, pc, event, before, commands,
          should_render>>

\* an event: its variant, and for a key its variant and character
Ev(t, k, c) ==
    [type |-> t, key |-> k, c |-> c, tab_info |-> <<>>, configuration |-> None]

\* Event::TabUpdate(tab_info)
EvTabUpdate(tab_info) ==
    [type |-> "TabUpdate", key |-> "", c |-> "", tab_info |-> tab_info,
     configuration |-> None]

\* the load() call with the ignore_case entry of its configuration, if any
EvLoad(cfg) ==
    [type |-> "Load", key |-> "", c |-> "", tab_info |-> <<>>,
     configuration |-> cfg]

\* #[derive(Default)] State
Init ==
    /\ tabs = <<>>
    /\ filter = <<>>
    /\ selected = None
    /\ ignore_case = FALSE
    /\ pc = "new"
    /\ event = Ev("None", "", "")
    /\ before = [filter |-> <<>>, selected |-> None]
    /\ commands = <<>>
    /\ should_render = FALSE

\* ZellijPlugin::load: a configuration value that does not parse makes
\* unwrap() panic after request_permission and before subscribe
Load ==
    \E cfg \in Configurations :
        LET parsed == IF cfg = None THEN Some(TRUE) ELSE parse_bool(trim(cfg[1]))
        IN  /\ pc = "new"
            /\ event' = EvLoad(cfg)
            /\ before' = [filter |-> filter, selected |-> selected]
            /\ IF parsed = None
               THEN /\ pc' = "panicked"
                    /\ commands' = <<RequestPermission>>
                    /\ UNCHANGED ignore_case
               ELSE /\ pc' = "ready"
                    /\ ignore_case' = parsed[1]
                    /\ commands' = <<RequestPermission, Subscribe>>
            /\ UNCHANGED <<tabs, filter, selected, should_render>>

\* what every update() call records; the host delivers events once load()
\* has subscribed to them
Received(ev) ==
    /\ pc = "ready"
    /\ event' = ev
    /\ before' = [filter |-> filter, selected |-> selected]
    /\ UNCHANGED <<pc, ignore_case>>

\* a find_map that yields the index of the active tab in the list, counted
\* from zero, in place of its position
find_active_index(tab_info) ==
    IF \E i \in 1..Len(tab_info) : tab_info[i].active
    THEN Some((CHOOSE i \in 1..Len(tab_info) :
                  /\ tab_info[i].active
                  /\ \A k \in 1..(i - 1) : ~tab_info[k].active) - 1)
    ELSE None

\* tab_info.iter().find_map(|tab| if tab.active { Some(tab.position) } ...)
find_active(tab_info) ==
    IF \E i \in 1..Len(tab_info) : tab_info[i].active
    THEN Some(tab_info[CHOOSE i \in 1..Len(tab_info) :
                          /\ tab_info[i].active
                          /\ \A k \in 1..(i - 1) : ~tab_info[k].active].position)
    ELSE None

\* a TabUpdate that replaces the snapshot and keeps the selection
TabUpdateFrom_keeps_selected(lists) ==
    \E tab_info \in lists :
        /\ Received(EvTabUpdate(tab_info))
        /\ tabs' = tab_info
        /\ should_render' = TRUE
        /\ commands' = <<>>
        /\ UNCHANGED <<filter, selected>>

\* Event::TabUpdate(tab_info), tab_info one of lists
TabUpdateFrom(lists) ==
    \E tab_info \in lists :
        /\ Received(EvTabUpdate(tab_info))
        /\ selected' = find_active(tab_info)
        /\ tabs' = tab_info
        /\ should_render' = TRUE
        /\ commands' = <<>>
        /\ UNCHANGED filter

TabUpdate == TabUpdateFrom(TabLists)

TabUpdateLong == TabUpdateFrom(LongTabLists)

\* a cancel that also clears the filter text
KeyCancel_clears_filter ==
    \E k \in {Ev("Key", "Esc", ""), Ev("Key", "Ctrl", "c")} :
        /\ Received(k)
        /\ commands' = <<CloseFocus>>
        /\ should_render' = FALSE
        /\ filter' = <<>>
        /\ UNCHANGED <<tabs, selected>>

\* Event::Key(Key::Esc | Key::Ctrl('c'))
KeyCancel ==
    \E k \in {Ev("Key", "Esc", ""), Ev("Key", "Ctrl", "c")} :
        /\ Received(k)
        /\ commands' = <<CloseFocus>>
        /\ should_render' = FALSE
        /\ UNCHANGED <<tabs, filter, selected>>

\* Event::Key(Key::Down | Key::Ctrl('n'))
KeyDown ==
    \E k \in {Ev("Key", "Down", ""), Ev("Key", "Ctrl", "n")} :
        /\ Received(k)
        /\ selected' = select_down(tabs, filter, selected)
        /\ should_render' = TRUE
        /\ commands' = <<>>
        /\ UNCHANGED <<tabs, filter>>

\* Event::Key(Key::Up | Key::Ctrl('p'))
KeyUp ==
    \E k \in {Ev("Key", "Up", ""), Ev("Key", "Ctrl", "p")} :
        /\ Received(k)
        /\ selected' = select_up(tabs, filter, selected)
        /\ should_render' = TRUE
        /\ commands' = <<>>
        /\ UNCHANGED <<tabs, filter>>

\* self.tabs.iter().find(|tab| Some(tab.position) == self.selected)
find_selected(tab_list, sel) ==
    IF \E i \in 1..Len(tab_list) : Some(tab_list[i].position) = sel
    THEN Some(tab_list[CHOOSE i \in 1..Len(tab_list) :
                          /\ Some(tab_list[i].position) = sel
                          /\ \A k \in 1..(i - 1) :
                                 Some(tab_list[k].position) # sel])
    ELSE None

\* the commands with the tab's zero-based position
confirm_commands_zero_based(tab) ==
    <<[cmd |-> "close_focus"], [cmd |-> "switch_tab_to", tab |-> tab.position]>>

\* close_focus(); switch_tab_to(tab.position as u32 + 1).  Every position of
\* Positions is far below 2^32, where the cast to u32 keeps the value.
confirm_commands(tab) == <<CloseFocus, SwitchTabTo(tab.position + 1)>>

\* a confirm that closes the overlay even when no tab is found
KeyConfirm_always_closes ==
    \E c \in ConfirmChars :
        LET tab == find_selected(tabs, selected)
        IN  /\ Received(Ev("Key", "Char", c))
            /\ commands' = IF tab # None THEN confirm_commands(tab[1])
                           ELSE <<CloseFocus>>
            /\ should_render' = FALSE
            /\ UNCHANGED <<tabs, filter, selected>>

\* Event::Key(Key::Char('\n') | Key::Char('Y'))
KeyConfirm ==
    \E c \in ConfirmChars :
        LET tab == find_selected(tabs, selected)
        IN  /\ Received(Ev("Key", "Char", c))
            /\ commands' = IF tab # None THEN confirm_commands(tab[1]) ELSE <<>>
            /\ should_render' = FALSE
            /\ UNCHANGED <<tabs, filter, selected>>

\* String::pop
pop(s) == IF s = <<>> THEN s ELSE SubSeq(s, 1, Len(s) - 1)

\* Event::Key(Key::Backspace)
KeyBackspace ==
    /\ Received(Ev("Key", "Backspace", ""))
    /\ filter' = pop(filter)
    /\ selected' = reset_selection(tabs, filter', selected)
    /\ should_render' = TRUE
    /\ commands' = <<>>
    /\ UNCHANGED tabs

\* a push at the front of the string
push_front(s, c) == <<c>> \o s

\* String::push
push(s, c) == Append(s, c)

\* Event::Key(Key::Char(c)) if c.is_ascii()
KeyChar ==
    \E c \in TypedChars :
        /\ is_ascii(c)
        /\ Len(filter) < MaxFilter
        /\ Received(Ev("Key", "Char", c))
        /\ filter' = push(filter, c)
        /\ selected' = reset_selection(tabs, filter', selected)
        /\ should_render' = TRUE
        /\ commands' = <<>>
        /\ UNCHANGED tabs

\* a catch-all arm that asks for a redraw
Other_redraws ==
    \E ev \in { Ev("Key", "Char", c) : c \in {x \in TypedChars : ~is_ascii(x)} }
               \cup { Ev("Key", "Left", ""), Ev("ModeUpdate", "", "") } :
        /\ Received(ev)
        /\ should_render' = TRUE
        /\ commands' = <<>>
        /\ UNCHANGED <<tabs, filter, selected>>

\* _ => (): a Key::Char that is not ASCII, any other key, any other event
Other ==
    \E ev \in { Ev("Key", "Char", c) : c \in {x \in TypedChars : ~is_ascii(x)} }
               \cup { Ev("Key", "Left", ""), Ev("ModeUpdate", "", "") } :
        /\ Received(ev)
        /\ should_render' = FALSE
        /\ commands' = <<>>
        /\ UNCHANGED <<tabs, filter, selected>>

\* ZellijPlugin::render: prints the prompt and the viewable tabs, and
\* assigns nothing
Render ==
    /\ pc = "ready"
    /\ UNCHANGED vars

\* ZellijPlugin::load, ::update and ::render
Next ==
    \/ Load
    \/ Render
    \/ TabUpdate
    \/ KeyCancel
    \/ KeyDown
    \/ KeyUp
    \/ KeyConfirm
    \/ KeyBackspace
    \/ KeyChar
    \/ Other

Spec == Init /\ [][Next]_vars

\* ZellijPlugin::update when the host has one tab, its name short or long
NextLong ==
    \/ Load
    \/ TabUpdateLong
    \/ KeyDown
    \/ KeyUp
    \/ KeyBackspace
    \/ KeyChar

SpecLong == Init /\ [][NextLong]_vars

\* ------------------------------------------------------------ properties
\* the viewable set of the current snapshot and filter text, in rank order
Viewable == viewable_tabs(tabs, filter)

\* sel is the position of a tab of the viewable set
InView(sel) == \E i \in 1..Len(Viewable) : Some(Viewable[i].position) = sel

\* the position of the top-ranked viewable tab, None when there is none
TopOfView == IF Viewable = <<>> THEN None ELSE Some(Viewable[1].position)

\* p is a subsequence of c: its characters occur in c in order, gaps allowed
IsSubsequence(p, c) ==
    \E f \in [1..Len(p) -> 1..Len(c)] :
        /\ \A i \in 1..Len(p) : c[f[i]] = p[i]
        /\ \A i, j \in 1..Len(p) : i < j => f[i] < f[j]

\* the last event was a key that mutates the filter text
IsFilterKey ==
    /\ event.type = "Key"
    /\ \/ event.key = "Backspace"
       \/ event.key = "Char" /\ event.c \notin ConfirmChars /\ is_ascii(event.c)

\* the last event was a confirm key
IsConfirmKey == event.type = "Key" /\ event.key = "Char" /\ event.c \in ConfirmChars

\* select_down applied n times
RECURSIVE select_down_times(_, _)
select_down_times(sel, n) ==
    IF n = 0 THEN sel
    ELSE select_down(tabs, filter, select_down_times(sel, n - 1))

\* the index in the snapshot of the tab at position pos
IndexOf(pos) == CHOOSE i \in 1..Len(tabs) : tabs[i].position = pos

\* C1: in every reachable state the selection is empty or is the position of
\* a tab of the viewable set of the current snapshot and filter text.
C1_SelectionInView == selected = None \/ InView(selected)

C3_BackspaceOnEmptyKeepsSelection ==
    (event.key = "Backspace" /\ before.filter = <<>>) =>
        /\ filter = <<>>
        /\ selected = before.selected

\* C3 as amended: a backspace received while the filter text is empty leaves
\* the filter text empty and resets the selection to the position of the
\* top-ranked viewable tab, empty when there is none.
C3_BackspaceOnEmptyResetsSelection ==
    (event.key = "Backspace" /\ before.filter = <<>>) =>
        /\ filter = <<>>
        /\ selected = TopOfView

\* C3 happens: a backspace on the empty filter text has moved the selection
\* from position 1 to the top-ranked tab at position 0.
C3_Witness ==
    /\ event.key = "Backspace"
    /\ before.filter = <<>>
    /\ before.selected = Some(1)
    /\ selected = Some(0)

\* C4: a confirm key received while the selection is the position p of a tab
\* of the snapshot issues exactly close_focus and then switch_tab_to(p + 1).
C4_ConfirmCommands ==
    (IsConfirmKey /\ \E i \in 1..Len(tabs) : Some(tabs[i].position) = selected) =>
        commands = <<[cmd |-> "close_focus"],
                     [cmd |-> "switch_tab_to", tab |-> selected[1] + 1]>>

\* C4 happens: confirm with the tab at position 1 selected switches to tab 2.
C4_Witness ==
    /\ IsConfirmKey
    /\ selected = Some(1)
    /\ commands = <<[cmd |-> "close_focus"], [cmd |-> "switch_tab_to", tab |-> 2]>>

\* C5: from every reachable state with k > 0 viewable tabs, select_down
\* applied k times gives back the selection it started from.
C5_SelectDownCycles ==
    Viewable # <<>> => select_down_times(selected, Len(Viewable)) = selected

\* C6: from every reachable state select_down then select_up, and select_up
\* then select_down, give back the selection they started from.
C6_UpInvertsDown ==
    /\ select_up(tabs, filter, select_down(tabs, filter, selected)) = selected
    /\ select_down(tabs, filter, select_up(tabs, filter, selected)) = selected

\* C7: a tab of the snapshot is in the viewable set if and only if the
\* lower-cased filter text is a subsequence of its lower-cased search string.
C7_ViewableIffSubsequence ==
    \A i \in 1..Len(tabs) :
        (\E k \in 1..Len(Viewable) : Viewable[k] = tabs[i])
        <=> IsSubsequence(to_lowercase(filter), to_lowercase(search_str(tabs[i])))

\* C8 as claimed: the viewable set is in descending order of score and tabs of
\* equal score are in ascending order of position.
C8_TiesByPosition ==
    \A i, j \in 1..Len(Viewable) :
        i < j =>
            /\ score(Viewable[i], filter) >= score(Viewable[j], filter)
            /\ score(Viewable[i], filter) = score(Viewable[j], filter)
                   => Viewable[i].position < Viewable[j].position

\* C8 as amended: the viewable set is in descending order of score and tabs
\* of equal score are in the order they have in the snapshot.
C8_TiesBySnapshotOrder ==
    \A i, j \in 1..Len(Viewable) :
        i < j =>
            /\ score(Viewable[i], filter) >= score(Viewable[j], filter)
            /\ score(Viewable[i], filter) = score(Viewable[j], filter)
                   => IndexOf(Viewable[i].position) < IndexOf(Viewable[j].position)

\* C8 happens: a non-empty filter text ties two viewable tabs of a snapshot
\* that lists the higher position first.
C8_Witness ==
    /\ filter # <<>>
    /\ Len(Viewable) = 2
    /\ score(Viewable[1], filter) = score(Viewable[2], filter)
    /\ Viewable[1].position > Viewable[2].position

\* C9: right after a tab update whose snapshot has no active tab the
\* selection is the position of the top-ranked viewable tab, and is empty
\* only if no tab is viewable.
C9_UpdateWithoutActiveResets ==
    (event.type = "TabUpdate" /\ \A i \in 1..Len(tabs) : ~tabs[i].active) =>
        selected = TopOfView

\* C10 as claimed: every character key that is not a confirm key appends its
\* character to the filter text, resets the selection and asks for a redraw.
C10_EveryCharAppends ==
    (event.type = "Key" /\ event.key = "Char" /\ event.c \notin ConfirmChars) =>
        /\ filter = before.filter \o <<event.c>>
        /\ selected = TopOfView
        /\ should_render = TRUE

\* C10 as amended: every ASCII character key that is not a confirm key
\* appends its character to the filter text, resets the selection and asks
\* for a redraw; a character key that is not ASCII changes neither the filter
\* text nor the selection and asks for no redraw.
C10_AsciiCharAppends ==
    (event.type = "Key" /\ event.key = "Char" /\ event.c \notin ConfirmChars) =>
        IF is_ascii(event.c)
        THEN /\ filter = before.filter \o <<event.c>>
             /\ selected = TopOfView
             /\ should_render = TRUE
        ELSE /\ filter = before.filter
             /\ selected = before.selected
             /\ should_render = FALSE

\* C10 happens: "e" has just been appended to the filter text "t".
C10_Witness ==
    /\ event = Ev("Key", "Char", "e")
    /\ before.filter = <<"t">>
    /\ filter = <<"t", "e">>
    /\ should_render = TRUE

\* ev is a tab update or a cancel, move, confirm or backspace key
IsNamedEvent(ev) ==
    \/ ev.type = "TabUpdate"
    \/ ev.type = "Key" /\ ev.key \in {"Esc", "Down", "Up", "Backspace"}
    \/ ev.type = "Key" /\ ev.key = "Ctrl" /\ ev.c \in {"c", "n", "p"}
    \/ ev.type = "Key" /\ ev.key = "Char" /\ ev.c \in ConfirmChars

\* the control characters: the characters that are not printable
ControlChars == {"\t", "\n", "\r"}
is_control(c) == c \in ControlChars

\* ev is the key of a printable character
IsPrintableCharEvent(ev) ==
    ev.type = "Key" /\ ev.key = "Char" /\ ~is_control(ev.c)

\* ev is the key of an ASCII character
IsAsciiCharEvent(ev) ==
    ev.type = "Key" /\ ev.key = "Char" /\ is_ascii(ev.c)

\* ev is an event update() received that is of none of the named kinds and
\* no ASCII character key
IsOtherEvent(ev) ==
    /\ ev.type \notin {"None", "Load"}
    /\ ~IsNamedEvent(ev)
    /\ ~IsAsciiCharEvent(ev)

IsConfirmEvent(ev) == ev.type = "Key" /\ ev.key = "Char" /\ ev.c \in ConfirmChars

IsCancelEvent(ev) ==
    ev.type = "Key" /\ (ev.key = "Esc" \/ (ev.key = "Ctrl" /\ ev.c = "c"))

IsDownEvent(ev) ==
    ev.type = "Key" /\ (ev.key = "Down" \/ (ev.key = "Ctrl" /\ ev.c = "n"))

IsUpEvent(ev) ==
    ev.type = "Key" /\ (ev.key = "Up" \/ (ev.key = "Ctrl" /\ ev.c = "p"))

IsFilterEvent(ev) ==
    /\ ev.type = "Key"
    /\ \/ ev.key = "Backspace"
       \/ ev.key = "Char" /\ ev.c \notin ConfirmChars /\ is_ascii(ev.c)

\* the frame of cancel, confirm and render, and of the events that leave the
\* filter text alone
FilterFrame ==
    /\ (event'.type = "TabUpdate" \/ IsDownEvent(event') \/ IsUpEvent(event'))
           => filter' = filter
    /\ (IsCancelEvent(event') \/ IsConfirmEvent(event'))
           => UNCHANGED <<tabs, filter, selected>>
    /\ Render => UNCHANGED <<tabs, filter, selected>>

\* the configuration value of a load is one str::parse::<bool> accepts once
\* trimmed
IsBooleanText(v) == trim(v) \in {<<"t","r","u","e">>, <<"f","a","l","s","e">>}

\* C11: a load whose configuration holds an ignore_case value that is no
\* boolean text does not abort: ignore_case is true and the plugin is ready
\* (subscribed); a load without the key leaves ignore_case true.
C11_LoadFallsBackToDefault ==
    event.type = "Load" =>
        /\ (event.configuration # None
            /\ ~IsBooleanText(event.configuration[1])) =>
               (pc = "ready" /\ ignore_case = TRUE)
        /\ event.configuration = None => (pc = "ready" /\ ignore_case = TRUE)

\* C12: every event is accepted once the plugin is ready, and an event that
\* is no tab update, no cancel, move, confirm or backspace key and no
\* printable-character key changes no state, issues no host command and
\* returns should_render = false.
C12_UnprintableEventsAreNoOps ==
    /\ [](pc = "ready" => ENABLED Other)
    /\ [][(event'.type \notin {"None", "Load"} /\ ~IsNamedEvent(event')
           /\ ~IsPrintableCharEvent(event')) =>
             /\ UNCHANGED <<tabs, filter, selected, ignore_case, pc>>
             /\ commands' = <<>>
             /\ should_render' = FALSE]_vars

\* C12, amended: every event is accepted once the plugin is ready, and an
\* event that is no tab update, no cancel, move, confirm or backspace key and
\* no ASCII character key (printable or control character) changes no state,
\* issues no host command and returns should_render = false.
C12_OtherEventsAreNoOps ==
    /\ [](pc = "ready" => ENABLED Other)
    /\ [][IsOtherEvent(event') =>
             /\ UNCHANGED <<tabs, filter, selected, ignore_case, pc>>
             /\ commands' = <<>>
             /\ should_render' = FALSE]_vars

\* C12 happens: an unnamed event has been dispatched on a non-empty snapshot
\* with a non-empty filter text.
C12_Witness ==
    /\ IsOtherEvent(event)
    /\ event.type = "Key"
    /\ tabs # <<>>
    /\ filter # <<>>
    /\ selected # None
    /\ should_render = FALSE

\* C13: with an empty filter text every tab of the snapshot scores the same,
\* the viewable set is the snapshot in snapshot order, and a reset selects the
\* first tab of the snapshot.
C13_EmptyFilterShowsAll ==
    filter = <<>> =>
        /\ \A i, j \in 1..Len(tabs) : score(tabs[i], filter) = score(tabs[j], filter)
        /\ Viewable = tabs
        /\ (IsFilterKey /\ tabs # <<>>) => selected = Some(tabs[1].position)

\* C13 happens: a backspace emptied the filter text over a snapshot of two
\* tabs listed in descending position order, and the first one is selected.
C13_Witness ==
    /\ filter = <<>>
    /\ before.filter # <<>>
    /\ IsFilterKey
    /\ Len(tabs) = 2
    /\ tabs[1].position > tabs[2].position
    /\ selected = Some(tabs[1].position)

\* C14: a confirm key received while the selection is empty, or is the
\* position of no tab of the snapshot, issues no host command and leaves the
\* snapshot, the filter text and the selection as they were.
C14_ConfirmWithoutTabIsNoOp ==
    [][(IsConfirmEvent(event')
        /\ \A i \in 1..Len(tabs) : Some(tabs[i].position) # selected) =>
           /\ commands' = <<>>
           /\ UNCHANGED <<tabs, filter, selected>>]_vars

\* C14 happens: confirm was pressed with an empty selection over a non-empty
\* snapshot and nothing was issued.
C14_Witness ==
    /\ IsConfirmKey
    /\ selected = None
    /\ tabs # <<>>
    /\ commands = <<>>

\* C15: select_down moves the selection from the i-th viewable tab to the
\* (i+1)-th; from the last one, from an empty selection and from a position
\* that is not viewable it moves to the first viewable tab; with no viewable
\* tab it leaves the selection; snapshot and filter text are unchanged.
C15_SelectDown ==
    [][IsDownEvent(event') =>
          LET v == Viewable
              at == {i \in 1..Len(v) : Some(v[i].position) = selected}
          IN  /\ UNCHANGED <<tabs, filter>>
              /\ v = <<>> => selected' = selected
              /\ (v # <<>> /\ at = {}) => selected' = Some(v[1].position)
              /\ \A i \in at :
                     selected' = IF i < Len(v) THEN Some(v[i + 1].position)
                                 ELSE Some(v[1].position)]_vars

\* C15 happens: a move-down key took the selection from the first of two
\* viewable tabs to the second.
C15_Witness ==
    /\ IsDownEvent(event)
    /\ Len(Viewable) = 2
    /\ before.selected = Some(Viewable[1].position)
    /\ selected = Some(Viewable[2].position)

\* C16: select_up moves the selection from the i-th viewable tab to the
\* (i-1)-th; from the first one, from an empty selection and from a position
\* that is not viewable it moves to the last viewable tab; with no viewable
\* tab it leaves the selection.
C16_SelectUp ==
    [][IsUpEvent(event') =>
          LET v == Viewable
              at == {i \in 1..Len(v) : Some(v[i].position) = selected}
          IN  /\ v = <<>> => selected' = selected
              /\ (v # <<>> /\ at = {}) => selected' = Some(v[Len(v)].position)
              /\ \A i \in at :
                     selected' = IF i > 1 THEN Some(v[i - 1].position)
                                 ELSE Some(v[Len(v)].position)]_vars

\* C16 happens: a move-up key took the selection from the first of two
\* viewable tabs to the last.
C16_Witness ==
    /\ IsUpEvent(event)
    /\ Len(Viewable) = 2
    /\ before.selected = Some(Viewable[1].position)
    /\ selected = Some(Viewable[2].position)

\* C17: a tab update makes the snapshot the delivered list, sets the
\* selection to the position of the list's active tab when it has one,
\* whatever the selection and the filter text were, and returns
\* should_render = true.
C17_TabUpdateReplacesSnapshot ==
    event.type = "TabUpdate" =>
        /\ tabs = event.tab_info
        /\ should_render = TRUE
        /\ \A i \in 1..Len(event.tab_info) :
               event.tab_info[i].active =>
                   selected = Some(event.tab_info[i].position)

\* C17 happens: an update with an active tab that the filter text hides
\* replaced another selection.
C17_Witness ==
    /\ event.type = "TabUpdate"
    /\ filter # <<>>
    /\ \E i \in 1..Len(tabs) :
           /\ tabs[i].active
           /\ i # tabs[i].position + 1
           /\ selected = Some(tabs[i].position)
           /\ ~InView(selected)
    /\ before.selected # None
    /\ before.selected # selected

\* C18: a non-empty selection is the position of a tab of the snapshot, so a
\* confirm key with a non-empty selection issues close_focus and
\* switch_tab_to.
C18_SelectionInSnapshot ==
    selected # None =>
        /\ \E i \in 1..Len(tabs) : tabs[i].position = selected[1]
        /\ IsConfirmKey =>
               commands = <<[cmd |-> "close_focus"],
                            [cmd |-> "switch_tab_to", tab |-> selected[1] + 1]>>

\* C18 happens: confirm was pressed with a selection the filter text hides,
\* and both commands were issued.
C18_Witness ==
    /\ IsConfirmKey
    /\ selected # None
    /\ ~InView(selected)
    /\ Len(commands) = 2

\* C19: when a confirm key issues switch_tab_to(n), the tab at position n - 1
\* is in the viewable set.
C19_SwitchOnlyToViewable ==
    (IsConfirmKey /\ Len(commands) = 2) => InView(Some(commands[2].tab - 1))

\* C20: the filter text changes only through printable-character keys and
\* backspace keys: tab updates and move keys leave it unchanged, and cancel,
\* confirm and render leave the snapshot, the filter text and the selection
\* as they were.
C20_FilterChangesOnlyByPrintable ==
    [][/\ filter' # filter =>
              (event'.key = "Backspace" \/ IsPrintableCharEvent(event'))
       /\ FilterFrame]_vars

\* C20, amended: the filter text changes only through ASCII character keys
\* (printable or control character, the confirm characters excepted) and
\* backspace keys: tab updates and move keys leave it unchanged, and cancel,
\* confirm and render leave the snapshot, the filter text and the selection
\* as they were.
C20_FilterChangesOnlyByTyping ==
    [][/\ filter' # filter => IsFilterEvent(event')
       /\ FilterFrame]_vars

\* C20 happens: cancel was pressed over a snapshot and a filter text that
\* holds a typed tab character, and both are still there.
C20_Witness ==
    /\ IsCancelEvent(event)
    /\ commands = <<[cmd |-> "close_focus"]>>
    /\ \E i \in 1..Len(filter) : filter[i] = "\t"
    /\ tabs # <<>>

====
